---- MODULE Spec2Model ----
(***************************************************************************)
(* Night-time colour temperature engine of NightTimeTemperature.           *)
(*                                                                         *)
(* One evaluation request is followed from the four time-of-day values the *)
(* sun-times provider reports and the current instant, through the date    *)
(* combination, the three midnight corrections, the midday-period          *)
(* computation and its fix-up, to the temperature.  The repository holds   *)
(* two implementations of that pipeline and both are modelled:             *)
(*   impl = "utils"   : app/utils.py, date_adjustment + calculate_temp     *)
(*   impl = "classes" : SunTimes, DateAdjustment, MiddayPeriodCalculator,  *)
(*                      TimeIntervalCalculator, ProportionCalculator,      *)
(*                      GetTemp                                            *)
(* RouteSpec puts the HTTP request around the pipeline: the lat and lng    *)
(* query parameters, their validation, the provider's answer and the       *)
(* response (routes.get_temperature for utils, main.main for the classes). *)
(* ConcSpec runs two evaluations of the class-based pipeline at the same   *)
(* time on a heap of SunTimes objects.                                     *)
(*                                                                         *)
(* Time is counted in ticks; a day has TicksPerDay ticks.  A datetime is   *)
(* the number of ticks since 00:00 of day 0, a time-of-day is a number in  *)
(* 0 .. TicksPerDay-1, a timedelta is a difference of datetimes.  A float  *)
(* is an exact fraction [num, den] with den > 0.                           *)
(***************************************************************************)
EXTENDS Integers, Naturals, Sequences, FiniteSets, TLC

\* Resolution of the clock: ticks in one day.
TicksPerDay == 8

\* Calendar day (number) on which the request is evaluated.
Today == 1

\* Largest datetime of a directly constructed SunTimes object (GivenSpec).
MaxInstant == 6

HI_TEMP == 6000

LO_TEMP == 2700

\* Python's None for the not yet computed midday period.
None == -1

VARIABLES
    impl,        \* which implementation serves the request
    pc,          \* position of the request in the pipeline
    request,     \* the provider's four time-of-day values and now's, as given
    sun_times,   \* the SunTimes object (utils.py: the local variables)
    result,      \* what the evaluation returned or raised
    args,        \* the lat and lng query parameters of the HTTP request
    provider,    \* how the sun-times provider answers a request
    provider_requests,  \* the number of requests.get calls issued so far
    response,    \* what the HTTP client gets back
    objects,     \* the SunTimes objects created so far, by identity
    evals        \* two evaluations running at the same time

\* the HTTP exchange around one evaluation
route_vars == <<args, provider, provider_requests, response>>

\* the concurrent evaluations and the objects they work on
conc_vars == <<objects, evals>>

vars == <<impl, pc, request, sun_times, result, route_vars, conc_vars>>

Impls == {"utils", "classes"}

TimesOfDay == 0 .. (TicksPerDay - 1)

----------------------------------------------------------------------------
(* datetime, time and timedelta *)

\* timedelta(days=1)
OneDay == TicksPerDay

\* datetime.time(): the time-of-day of a datetime
TimeOf(dt) == dt % TicksPerDay

\* datetime.date(): the calendar day of a datetime
DateOf(dt) == dt \div TicksPerDay

\* datetime.combine(date, time)
Combine(date, t) == date * TicksPerDay + t

\* time(00, 00)
Midnight == 0

----------------------------------------------------------------------------
(* floats as exact fractions *)

Frac(n, d) == IF d < 0 THEN [num |-> 0 - n, den |-> 0 - d] ELSE [num |-> n, den |-> d]

FracEq(a, b) == a.num * b.den = b.num * a.den

FracLe(a, b) == a.num * b.den <= b.num * a.den

\* c + k * p for integers c, k and a fraction p
Affine(c, k, p) == [num |-> c * p.den + k * p.num, den |-> p.den]

\* Python 3 round(): nearest integer, ties to the even one
Round(x) ==
    LET q == x.num \div x.den
        r == x.num % x.den
    IN  IF 2 * r < x.den THEN q
        ELSE IF 2 * r > x.den THEN q + 1
        ELSE IF q % 2 = 0 THEN q ELSE q + 1

Value(x) == [kind |-> "value", num |-> x.num, den |-> x.den]

IntValue(n) == [kind |-> "value", num |-> n, den |-> 1]

ZeroDivisionError == [kind |-> "ZeroDivisionError", num |-> 0, den |-> 1]

NoResult == [kind |-> "none", num |-> 0, den |-> 1]

----------------------------------------------------------------------------
(* app/sun_times.py: the SunTimes object *)

\* SunTimes(...) as process_sun_times builds it from the parsed provider
\* values, with user_time set to now
SunTimes(req) ==
    [sunrise              |-> req.sunrise,
     sunset               |-> req.sunset,
     morning_twilight     |-> req.morning_twilight,
     night_twilight       |-> req.night_twilight,
     midday_period_begins |-> None,
     midday_period_ends   |-> None,
     user_time            |-> Combine(Today, req.now)]

\* SunTimes.combine_times_with_date(user_time.date()): the four phases get the
\* date of now; the midday period is still None and stays None
combine_times_with_date(st, date) ==
    [st EXCEPT !.sunrise          = Combine(date, @),
               !.sunset           = Combine(date, @),
               !.morning_twilight = Combine(date, @),
               !.night_twilight   = Combine(date, @)]

\* utils.date_adjustment, "Combine sun times with current date"
utils_combine(st) ==
    LET today == DateOf(st.user_time)
    IN  [st EXCEPT !.sunrise          = Combine(today, @),
                   !.sunset           = Combine(today, @),
                   !.morning_twilight = Combine(today, @),
                   !.night_twilight   = Combine(today, @)]

----------------------------------------------------------------------------
(* process_response_utils/date_adjustment.py: DateAdjustment *)

\* a sunrise_before_twilight that moves morning_twilight along with the rest
sunrise_before_twilight_moves_all(st) ==
    [st EXCEPT !.user_time        = IF Midnight <= TimeOf(st.user_time)
                                       /\ TimeOf(st.user_time) < TimeOf(st.sunrise)
                                    THEN @ + OneDay ELSE @,
               !.morning_twilight = @ + OneDay,
               !.sunrise          = @ + OneDay,
               !.sunset           = @ + OneDay,
               !.night_twilight   = @ + OneDay]

\* a sunrise_before_twilight that moves every user_time before morning
\* twilight's time of day, not just those before sunrise's
sunrise_before_twilight_until_twilight(st) ==
    [st EXCEPT !.user_time      = IF Midnight <= TimeOf(st.user_time)
                                     /\ TimeOf(st.user_time) < TimeOf(st.morning_twilight)
                                  THEN @ + OneDay ELSE @,
               !.sunrise        = @ + OneDay,
               !.sunset         = @ + OneDay,
               !.night_twilight = @ + OneDay]

sunrise_before_twilight(st) ==
    [st EXCEPT !.user_time      = IF Midnight <= TimeOf(st.user_time)
                                     /\ TimeOf(st.user_time) < TimeOf(st.sunrise)
                                  THEN @ + OneDay ELSE @,
               !.sunrise        = @ + OneDay,
               !.sunset         = @ + OneDay,
               !.night_twilight = @ + OneDay]

\* a sunset_before_sunrise that forgets to move night_twilight along with sunset
sunset_before_sunrise_keeps_twilight(st) ==
    [st EXCEPT !.user_time = IF Midnight <= TimeOf(st.user_time)
                                /\ TimeOf(st.user_time) < TimeOf(st.night_twilight)
                             THEN @ + OneDay ELSE @,
               !.sunset    = @ + OneDay]

\* a sunset_before_sunrise that repairs the order by taking sunrise a day back
sunset_before_sunrise_pulls_sunrise_back(st) ==
    [st EXCEPT !.user_time = IF Midnight <= TimeOf(st.user_time)
                                /\ TimeOf(st.user_time) < TimeOf(st.night_twilight)
                             THEN @ + OneDay ELSE @,
               !.sunrise   = @ - OneDay]

\* a sunset_before_sunrise that moves the user_time before sunset's time of
\* day, not the one before night twilight's
sunset_before_sunrise_until_sunset(st) ==
    [st EXCEPT !.user_time      = IF Midnight <= TimeOf(st.user_time)
                                     /\ TimeOf(st.user_time) < TimeOf(st.sunset)
                                  THEN @ + OneDay ELSE @,
               !.sunset         = @ + OneDay,
               !.night_twilight = @ + OneDay]

sunset_before_sunrise(st) ==
    [st EXCEPT !.user_time      = IF Midnight <= TimeOf(st.user_time)
                                     /\ TimeOf(st.user_time) < TimeOf(st.night_twilight)
                                  THEN @ + OneDay ELSE @,
               !.sunset         = @ + OneDay,
               !.night_twilight = @ + OneDay]

\* a night_twilight_before_sunset that leaves user_time alone
night_twilight_before_sunset_keeps_now(st) ==
    [st EXCEPT !.night_twilight = @ + OneDay]

night_twilight_before_sunset(st) ==
    [st EXCEPT !.user_time      = IF Midnight <= TimeOf(st.user_time)
                                     /\ TimeOf(st.user_time) < TimeOf(st.night_twilight)
                                  THEN @ + OneDay ELSE @,
               !.night_twilight = @ + OneDay]

\* AbstractDateAdjustment.adjust_dates, first, second and third check
\* a first check that compares the times of day, not the instants
adjust_dates_1_by_time_of_day(st) ==
    IF TimeOf(st.sunrise) < TimeOf(st.morning_twilight)
    THEN sunrise_before_twilight(st)
    ELSE st

\* a first check that also fires when sunrise and morning twilight are the
\* same instant
adjust_dates_1_fires_on_equal(st) ==
    IF st.sunrise <= st.morning_twilight THEN sunrise_before_twilight(st) ELSE st

adjust_dates_1(st) ==
    IF st.sunrise < st.morning_twilight THEN sunrise_before_twilight(st) ELSE st

\* a second check that also fires when sunset and sunrise are the same instant
adjust_dates_2_fires_on_equal(st) ==
    IF st.sunset <= st.sunrise THEN sunset_before_sunrise(st) ELSE st

adjust_dates_2(st) ==
    IF st.sunset < st.sunrise THEN sunset_before_sunrise(st) ELSE st

adjust_dates_3(st) ==
    IF st.night_twilight < st.sunset THEN night_twilight_before_sunset(st) ELSE st

adjust_dates(st) == adjust_dates_3(adjust_dates_2(adjust_dates_1(st)))

----------------------------------------------------------------------------
(* utils.date_adjustment: "Increment times which are out of order" *)

utils_increment_1(st) ==
    IF st.sunrise < st.morning_twilight
    THEN [st EXCEPT !.user_time      = IF Midnight <= TimeOf(st.user_time)
                                          /\ TimeOf(st.user_time) < TimeOf(st.sunrise)
                                       THEN @ + OneDay ELSE @,
                    !.sunrise        = @ + OneDay,
                    !.sunset         = @ + OneDay,
                    !.night_twilight = @ + OneDay]
    ELSE st

utils_increment_2(st) ==
    IF st.sunset < st.sunrise
    THEN [st EXCEPT !.user_time      = IF Midnight <= TimeOf(st.user_time)
                                          /\ TimeOf(st.user_time) < TimeOf(st.night_twilight)
                                       THEN @ + OneDay ELSE @,
                    !.sunset         = @ + OneDay,
                    !.night_twilight = @ + OneDay]
    ELSE st

utils_increment_3(st) ==
    IF st.night_twilight < st.sunset
    THEN [st EXCEPT !.user_time      = IF Midnight <= TimeOf(st.user_time)
                                          /\ TimeOf(st.user_time) < TimeOf(st.night_twilight)
                                       THEN @ + OneDay ELSE @,
                    !.night_twilight = @ + OneDay]
    ELSE st

----------------------------------------------------------------------------
(* the midday period *)

\* a calculate_midday_period that mirrors the morning twilight to the wrong side
calculate_midday_period_sign_slip(st) ==
    [st EXCEPT !.midday_period_begins = st.sunrise - (st.sunrise - st.morning_twilight),
               !.midday_period_ends   = st.sunset - (st.night_twilight - st.sunset)]

\* MiddayPeriodCalculator.calculate_midday_period
calculate_midday_period(st) ==
    [st EXCEPT !.midday_period_begins = st.sunrise + (st.sunrise - st.morning_twilight),
               !.midday_period_ends   = st.sunset - (st.night_twilight - st.sunset)]

\* a midday_period_adjustment whose first test also moves a
\* midday_period_begins that is at sunrise
midday_period_adjustment_begins_on_equal(st) ==
    LET begins == IF st.midday_period_begins <= st.sunrise
                     \/ st.midday_period_begins < st.morning_twilight
                  THEN st.midday_period_begins + OneDay
                  ELSE st.midday_period_begins
        ends   == IF st.midday_period_ends < begins
                  THEN st.midday_period_ends + OneDay
                  ELSE st.midday_period_ends
    IN  [st EXCEPT !.midday_period_begins = begins, !.midday_period_ends = ends]

\* a midday_period_adjustment without its second test
midday_period_adjustment_keeps_ends(st) ==
    LET begins == IF st.midday_period_begins < st.sunrise
                     \/ st.midday_period_begins < st.morning_twilight
                  THEN st.midday_period_begins + OneDay
                  ELSE st.midday_period_begins
    IN  [st EXCEPT !.midday_period_begins = begins]

\* a midday_period_adjustment that also moves a midday_period_ends equal to
\* midday_period_begins
midday_period_adjustment_moves_equal(st) ==
    LET begins == IF st.midday_period_begins < st.sunrise
                     \/ st.midday_period_begins < st.morning_twilight
                  THEN st.midday_period_begins + OneDay
                  ELSE st.midday_period_begins
        ends   == IF st.midday_period_ends <= begins
                  THEN st.midday_period_ends + OneDay
                  ELSE st.midday_period_ends
    IN  [st EXCEPT !.midday_period_begins = begins, !.midday_period_ends = ends]

\* MiddayPeriodCalculator.midday_period_adjustment: the second test reads the
\* midday_period_begins the first one may have moved
midday_period_adjustment(st) ==
    LET begins == IF st.midday_period_begins < st.sunrise
                     \/ st.midday_period_begins < st.morning_twilight
                  THEN st.midday_period_begins + OneDay
                  ELSE st.midday_period_begins
        ends   == IF st.midday_period_ends < begins
                  THEN st.midday_period_ends + OneDay
                  ELSE st.midday_period_ends
    IN  [st EXCEPT !.midday_period_begins = begins, !.midday_period_ends = ends]

\* AbstractMiddayPeriodCalculator.process_midday_period
process_midday_period(st) == midday_period_adjustment(calculate_midday_period(st))

\* utils.date_adjustment: mpb, mpe
utils_midday(st) ==
    [st EXCEPT !.midday_period_begins = st.sunrise + (st.sunrise - st.morning_twilight),
               !.midday_period_ends   = st.sunset - (st.night_twilight - st.sunset)]

\* utils.date_adjustment: "Increment mpe and mpb if out of order"
utils_midday_increment(st) ==
    LET mpb == IF st.midday_period_begins < st.sunrise
                  \/ st.midday_period_begins < st.morning_twilight
               THEN st.midday_period_begins + OneDay
               ELSE st.midday_period_begins
        mpe == IF st.midday_period_ends < mpb
               THEN st.midday_period_ends + OneDay
               ELSE st.midday_period_ends
    IN  [st EXCEPT !.midday_period_begins = mpb, !.midday_period_ends = mpe]

----------------------------------------------------------------------------
(* calculate_temp_utils: ProportionCalculator, GetTemp, TimeIntervalCalculator *)

\* a calculate_user_proportion that divides by the twilight length, not twice it
calculate_user_proportion_single(user_time, start_time, interval_length) ==
    Frac(user_time - start_time, interval_length)

\* ProportionCalculator.calculate_user_proportion: timedelta / timedelta.
\* The caller has made sure that interval_length is not zero.
calculate_user_proportion(user_time, start_time, interval_length) ==
    Frac(user_time - start_time, 2 * interval_length)

get_user_prop_morning(st) ==
    calculate_user_proportion(st.user_time, st.morning_twilight,
                              st.sunrise - st.morning_twilight)

\* a get_user_prop_night that measures from sunset, not from midday_period_ends
get_user_prop_night_from_sunset(st) ==
    calculate_user_proportion(st.user_time, st.sunset,
                              st.night_twilight - st.sunset)

get_user_prop_night(st) ==
    calculate_user_proportion(st.user_time, st.midday_period_ends,
                              st.night_twilight - st.sunset)

\* a user_in_midday_period that reads the wrong configuration key
user_in_midday_period_lo == IntValue(LO_TEMP)

user_in_midday_period == IntValue(HI_TEMP)

user_in_night_period == IntValue(LO_TEMP)

user_in_morning_twilight(morning_prop) ==
    IntValue(Round(Affine(LO_TEMP, HI_TEMP - LO_TEMP, morning_prop)))

user_in_night_twilight(night_prop) ==
    IntValue(Round(Affine(HI_TEMP, 0 - (HI_TEMP - LO_TEMP), night_prop)))

\* a chain of tests whose first test takes the two ends of the midday period
\* as well
interval_tested_closed_plateau(st) ==
    IF st.midday_period_begins <= st.user_time
       /\ st.user_time <= st.midday_period_ends
    THEN "midday_period"
    ELSE IF st.morning_twilight <= st.user_time
            /\ st.user_time <= st.midday_period_begins
    THEN "morning_twilight"
    ELSE IF st.midday_period_ends <= st.user_time
            /\ st.user_time <= st.night_twilight
    THEN "night_twilight"
    ELSE "night_period"

\* the chain of tests of get_interval and of utils.calculate_temp, in their
\* order: which of the four returns is reached
interval_tested(st) ==
    IF st.midday_period_begins < st.user_time
       /\ st.user_time < st.midday_period_ends
    THEN "midday_period"
    ELSE IF st.morning_twilight <= st.user_time
            /\ st.user_time <= st.midday_period_begins
    THEN "morning_twilight"
    ELSE IF st.midday_period_ends <= st.user_time
            /\ st.user_time <= st.night_twilight
    THEN "night_twilight"
    ELSE "night_period"

\* TimeIntervalCalculator.get_interval.  instantiate_proportion computes both
\* proportions before any region is tested, so a twilight of length zero
\* raises ZeroDivisionError whatever user_time is.
get_interval(st) ==
    IF st.sunrise - st.morning_twilight = 0 \/ st.night_twilight - st.sunset = 0
    THEN ZeroDivisionError
    ELSE IF st.midday_period_begins < st.user_time
            /\ st.user_time < st.midday_period_ends
    THEN user_in_midday_period
    ELSE IF st.morning_twilight <= st.user_time
            /\ st.user_time <= st.midday_period_begins
    THEN user_in_morning_twilight(get_user_prop_morning(st))
    ELSE IF st.midday_period_ends <= st.user_time
            /\ st.user_time <= st.night_twilight
    THEN user_in_night_twilight(get_user_prop_night(st))
    ELSE user_in_night_period

----------------------------------------------------------------------------
(* utils.calculate_temp: the regions, the proportion computed inside a region *)

\* ZeroDivisionError is neither TypeError nor ValueError: it leaves the
\* function as it is.
utils_calculate_temp(st) ==
    LET morning_twilight_length == st.sunrise - st.morning_twilight
        night_twilight_length   == st.night_twilight - st.sunset
    IN  IF st.midday_period_begins < st.user_time
           /\ st.user_time < st.midday_period_ends
        THEN IntValue(HI_TEMP)
        ELSE IF st.morning_twilight <= st.user_time
                /\ st.user_time <= st.midday_period_begins
        THEN IF 2 * morning_twilight_length = 0
             THEN ZeroDivisionError
             ELSE Value(Affine(LO_TEMP, HI_TEMP - LO_TEMP,
                               Frac(st.user_time - st.morning_twilight,
                                    2 * morning_twilight_length)))
        ELSE IF st.midday_period_ends <= st.user_time
                /\ st.user_time <= st.night_twilight
        THEN IF 2 * night_twilight_length = 0
             THEN ZeroDivisionError
             ELSE Value(Affine(HI_TEMP, 0 - (HI_TEMP - LO_TEMP),
                               Frac(st.user_time - st.midday_period_ends,
                                    2 * night_twilight_length)))
        ELSE IntValue(LO_TEMP)

----------------------------------------------------------------------------
(* the HTTP request, the coordinates and the sun-times provider *)

\* what a query parameter can hold: nothing, text that is no number, or the
\* text of a float that is not-a-number, below, inside or above the range
RawArgs == {"absent", "text", "nan", "below", "inside", "above"}

\* request.args.get(name, type=float): None when the parameter is absent or
\* float() raises ValueError, else the float; float("nan") is a float
args_get(raw) == IF raw \in {"absent", "text"} THEN "None" ELSE raw

\* isinstance(x, (int, float))
isinstance_number(x) == x # "None"

\* x < lower bound or x > upper bound; every comparison with nan is False
out_of_range(x) == x \in {"below", "above"}

\* how the provider can answer: the four times, no connection, a non-success
\* status, a body that is no JSON, JSON without "results", "results" without
\* one of the four keys, a time that does not parse
ProviderAnswers ==
    {"ok", "connection_error", "http_error", "not_json", "no_results",
     "missing_key", "bad_time"}

\* an outcome of a call: the exception that left it ("none": it returned) and
\* the number of provider requests it issued
Outcome(e, n) == [raised |-> e, requests |-> n]

\* utils.get_sun_times: the three validations, then requests.get; every
\* provider failure is raised as RuntimeError except the missing "results"
\* key, which is raised as requests.RequestException
get_sun_times(lat, lng, answer) ==
    IF ~isinstance_number(lat) \/ ~isinstance_number(lng)
    THEN Outcome("ValueError", 0)
    ELSE IF out_of_range(lat)
    THEN Outcome("ValueError", 0)
    ELSE IF out_of_range(lng)
    THEN Outcome("ValueError", 0)
    ELSE IF answer = "ok" THEN Outcome("none", 1)
    ELSE IF answer = "no_results" THEN Outcome("RequestException", 1)
    ELSE Outcome("RuntimeError", 1)

\* utils.date_adjustment and utils.calculate_temp around the call they make:
\* except Exception as e: raise RuntimeError(...) from e
except_Exception(o) ==
    IF o.raised = "none" THEN o ELSE Outcome("RuntimeError", o.requests)

\* SunTimesAPI.fetch_sun_times, ProcessAPICall.validate_response and
\* ResponseHandler.handle_response: the URL is built from whatever get_args
\* returned and requested; nothing is caught
fetch_sun_times(lat, lng, answer) ==
    IF answer = "ok" THEN Outcome("none", 1)
    ELSE IF answer = "connection_error" THEN Outcome("RequestException", 1)
    ELSE IF answer \in {"http_error", "not_json"} THEN Outcome("JSONDecodeError", 1)
    ELSE IF answer = "no_results" THEN Outcome("KeyError", 1)
    ELSE IF answer = "missing_key" THEN Outcome("RuntimeError", 1)
    ELSE Outcome("ValueError", 1)

NoResponse == [status |-> 0, body |-> "none"]

\* jsonify(temperature=temperature)
Ok200 == [status |-> 200, body |-> "temperature"]

\* jsonify(error=str(e)), 400
Error400 == [status |-> 400, body |-> "error"]

\* an exception left the view function
Unhandled == [status |-> 500, body |-> "exception"]

\* routes.get_temperature: try ... except RuntimeError
get_temperature(e) ==
    IF e = "none" THEN Ok200
    ELSE IF e = "RuntimeError" THEN Error400
    ELSE Unhandled

\* main.main: no try at all
main(e) == IF e = "none" THEN Ok200 ELSE Unhandled

\* the HTTP exchange of a request whose coordinates were good and whose
\* provider has answered with the four times
Answered ==
    /\ args = [lat |-> "inside", lng |-> "inside"]
    /\ provider = "ok"
    /\ provider_requests = 1
    /\ response = NoResponse

\* one evaluation at a time: no concurrent evaluations, no objects of theirs
NoEvaluations ==
    /\ objects = <<>>
    /\ evals = <<>>

----------------------------------------------------------------------------
(* one evaluation request *)

Requests ==
    [sunrise : TimesOfDay, sunset : TimesOfDay, morning_twilight : TimesOfDay,
     night_twilight : TimesOfDay, now : TimesOfDay]

Init ==
    /\ impl \in Impls
    /\ request \in Requests
    /\ sun_times = SunTimes(request)
    /\ pc = "request"
    /\ result = NoResult
    /\ Answered
    /\ NoEvaluations

\* process_sun_times / date_adjustment: the phases get today's date
CombineWithDate ==
    /\ pc = "request"
    /\ sun_times' = IF impl = "utils"
                    THEN utils_combine(sun_times)
                    ELSE combine_times_with_date(sun_times, DateOf(sun_times.user_time))
    /\ pc' = "combined"
    /\ UNCHANGED <<impl, request, result, route_vars, conc_vars>>

\* first check: sunrise before morning twilight
AdjustSunrise ==
    /\ pc = "combined"
    /\ sun_times' = IF impl = "utils"
                    THEN utils_increment_1(sun_times)
                    ELSE adjust_dates_1(sun_times)
    /\ pc' = "sunrise_checked"
    /\ UNCHANGED <<impl, request, result, route_vars, conc_vars>>

\* second check: sunset before sunrise
AdjustSunset ==
    /\ pc = "sunrise_checked"
    /\ sun_times' = IF impl = "utils"
                    THEN utils_increment_2(sun_times)
                    ELSE adjust_dates_2(sun_times)
    /\ pc' = "sunset_checked"
    /\ UNCHANGED <<impl, request, result, route_vars, conc_vars>>

\* third check: night twilight before sunset
AdjustNightTwilight ==
    /\ pc = "sunset_checked"
    /\ sun_times' = IF impl = "utils"
                    THEN utils_increment_3(sun_times)
                    ELSE adjust_dates_3(sun_times)
    /\ pc' = "adjusted"
    /\ UNCHANGED <<impl, request, result, route_vars, conc_vars>>

CalculateMidday ==
    /\ pc = "adjusted"
    /\ sun_times' = IF impl = "utils"
                    THEN utils_midday(sun_times)
                    ELSE calculate_midday_period(sun_times)
    /\ pc' = "midday"
    /\ UNCHANGED <<impl, request, result, route_vars, conc_vars>>

AdjustMidday ==
    /\ pc = "midday"
    /\ sun_times' = IF impl = "utils"
                    THEN utils_midday_increment(sun_times)
                    ELSE midday_period_adjustment(sun_times)
    /\ pc' = "processed"
    /\ UNCHANGED <<impl, request, result, route_vars, conc_vars>>

CalculateTemp ==
    /\ pc = "processed"
    /\ result' = IF impl = "utils"
                 THEN utils_calculate_temp(sun_times)
                 ELSE get_interval(sun_times)
    /\ pc' = "done"
    /\ UNCHANGED <<impl, request, sun_times, route_vars, conc_vars>>

Next ==
    \/ CombineWithDate
    \/ AdjustSunrise
    \/ AdjustSunset
    \/ AdjustNightTwilight
    \/ CalculateMidday
    \/ AdjustMidday
    \/ CalculateTemp

Spec == Init /\ [][Next]_vars

----------------------------------------------------------------------------
(* one HTTP request from its arrival to its response: routes.get_temperature *)
(* serves utils.calculate_temp, main.main the class-based pipeline           *)

\* the times of an ordinary day, for the requests whose evaluation never
\* gets to read them
QuietRequest ==
    [sunrise |-> 2, sunset |-> 5, morning_twilight |-> 1, night_twilight |-> 6,
     now |-> 3]

\* no SunTimes object has been built yet
NoSunTimes ==
    [sunrise |-> None, sunset |-> None, morning_twilight |-> None,
     night_twilight |-> None, midday_period_begins |-> None,
     midday_period_ends |-> None, user_time |-> None]

RouteInit ==
    /\ impl \in Impls
    /\ args \in [lat : RawArgs, lng : RawArgs]
    /\ provider \in ProviderAnswers
    /\ request \in IF args.lat = "inside" /\ args.lng = "inside" /\ provider = "ok"
                   THEN Requests
                   ELSE {QuietRequest}
    /\ sun_times = NoSunTimes
    /\ pc = "received"
    /\ result = NoResult
    /\ provider_requests = 0
    /\ response = NoResponse
    /\ NoEvaluations

\* the exception a finished evaluation left with, "none" when it returned
Raised(r) == IF r.kind = "value" THEN "none" ELSE r.kind

\* get_temperature up to the return of get_sun_times, which calculate_temp
\* reaches through date_adjustment
GetTemperature ==
    /\ pc = "received" /\ impl = "utils"
    /\ LET o == except_Exception(except_Exception(
                    get_sun_times(args_get(args.lat), args_get(args.lng), provider)))
       IN  /\ provider_requests' = provider_requests + o.requests
           /\ IF o.raised = "none"
              THEN /\ sun_times' = SunTimes(request)
                   /\ pc' = "request"
                   /\ response' = response
              ELSE /\ sun_times' = sun_times
                   /\ pc' = "responded"
                   /\ response' = get_temperature(o.raised)
    /\ UNCHANGED <<impl, request, result, args, provider, conc_vars>>

\* main up to the return of handle_response
Main ==
    /\ pc = "received" /\ impl = "classes"
    /\ LET o == fetch_sun_times(args_get(args.lat), args_get(args.lng), provider)
       IN  /\ provider_requests' = provider_requests + o.requests
           /\ IF o.raised = "none"
              THEN /\ sun_times' = SunTimes(request)
                   /\ pc' = "request"
                   /\ response' = response
              ELSE /\ sun_times' = sun_times
                   /\ pc' = "responded"
                   /\ response' = main(o.raised)
    /\ UNCHANGED <<impl, request, result, args, provider, conc_vars>>

\* the evaluation has returned or raised: jsonify, the except clause, or
\* the exception leaves the view function
Respond ==
    /\ pc = "done"
    /\ response' = IF impl = "utils"
                   THEN get_temperature(Raised(result))
                   ELSE main(Raised(result))
    /\ pc' = "responded"
    /\ UNCHANGED <<impl, request, sun_times, result, args, provider,
                   provider_requests, conc_vars>>

RouteNext ==
    \/ GetTemperature
    \/ Main
    \/ Next
    \/ Respond

RouteSpec == RouteInit /\ [][RouteNext]_vars

----------------------------------------------------------------------------
(* two evaluations of the class-based pipeline at the same time, as two     *)
(* threads of the server run main: every step of one may fall between any   *)
(* two steps of the other.  objects is the heap: an object's identity is    *)
(* its index, and DateAdjustment and MiddayPeriodCalculator change the      *)
(* object they are handed in place.                                         *)

Evals == {1, 2}

\* ordinary days for the concurrent evaluations: twilights of one tick,
\* three ticks of daylight, any start and any now
ConcRequests ==
    {r \in Requests :
        /\ r.sunrise = (r.morning_twilight + 1) % TicksPerDay
        /\ r.sunset = (r.sunrise + 3) % TicksPerDay
        /\ r.night_twilight = (r.sunset + 1) % TicksPerDay}

ConcInit ==
    /\ impl = "classes"
    /\ pc = "idle"
    /\ request = QuietRequest
    /\ sun_times = NoSunTimes
    /\ result = NoResult
    /\ Answered
    /\ objects = <<>>
    /\ evals \in [Evals -> {[pc |-> "start", request |-> r, builder |-> 0,
                             ref |-> 0, result |-> NoResult] : r \in ConcRequests}]

\* a constructor that hands out the one object it made first
new_object_singleton(objs) == 1

\* SunTimes(...): the constructor makes a new object
new_object(objs) == Len(objs) + 1

\* the heap after object id has been given the value st
Store(objs, id, st) ==
    IF id = Len(objs) + 1 THEN Append(objs, st) ELSE [objs EXCEPT ![id] = st]

\* ProcessAPICall(): __init__ makes a SunTimes() of its own, the builder,
\* whose user_time is the time of its creation
CreateProcessor(k) ==
    /\ evals[k].pc = "start"
    /\ LET id == new_object(objects)
       IN  /\ objects' = Store(objects, id,
                               [NoSunTimes EXCEPT
                                   !.user_time = Combine(Today, evals[k].request.now)])
           /\ evals' = [evals EXCEPT ![k].builder = id, ![k].pc = "created"]
    /\ UNCHANGED <<impl, pc, request, sun_times, result, route_vars>>

\* process_sun_times: a new SunTimes from the dictionary, set_user_time,
\* combine_times_with_date; the builder is not touched
ProcessSunTimes(k) ==
    /\ evals[k].pc = "created"
    /\ LET id == new_object(objects)
           st == SunTimes(evals[k].request)
       IN  /\ objects' = Store(objects, id,
                               combine_times_with_date(st, DateOf(st.user_time)))
           /\ evals' = [evals EXCEPT ![k].ref = id, ![k].pc = "combined"]
    /\ UNCHANGED <<impl, pc, request, sun_times, result, route_vars>>

\* where an evaluation goes next, and what the step does to its object
NextStage(stage) ==
    CASE stage = "combined"        -> "sunrise_checked"
      [] stage = "sunrise_checked" -> "sunset_checked"
      [] stage = "sunset_checked"  -> "adjusted"
      [] stage = "adjusted"        -> "midday"
      [] stage = "midday"          -> "processed"

StageStep(stage, st) ==
    CASE stage = "combined"        -> adjust_dates_1(st)
      [] stage = "sunrise_checked" -> adjust_dates_2(st)
      [] stage = "sunset_checked"  -> adjust_dates_3(st)
      [] stage = "adjusted"        -> calculate_midday_period(st)
      [] stage = "midday"          -> midday_period_adjustment(st)

\* one step of adjust_dates or process_midday_period on the object the
\* evaluation holds
ProcessStep(k) ==
    /\ evals[k].pc \in {"combined", "sunrise_checked", "sunset_checked",
                        "adjusted", "midday"}
    /\ objects' = [objects EXCEPT
                      ![evals[k].ref] = StageStep(evals[k].pc, objects[evals[k].ref])]
    /\ evals' = [evals EXCEPT ![k].pc = NextStage(evals[k].pc)]
    /\ UNCHANGED <<impl, pc, request, sun_times, result, route_vars>>

\* CalculateTemp.calculate_temp on the processed object
ConcCalculateTemp(k) ==
    /\ evals[k].pc = "processed"
    /\ evals' = [evals EXCEPT ![k].result = get_interval(objects[evals[k].ref]),
                              ![k].pc = "done"]
    /\ UNCHANGED <<impl, pc, request, sun_times, result, route_vars, objects>>

ConcNext ==
    \E k \in Evals :
        \/ CreateProcessor(k)
        \/ ProcessSunTimes(k)
        \/ ProcessStep(k)
        \/ ConcCalculateTemp(k)

ConcSpec == ConcInit /\ [][ConcNext]_vars

----------------------------------------------------------------------------
(* SunTimes objects handed to the temperature engine directly, as the tests *)
(* of CalculateTemp build them: six instants in the total order and any     *)
(* user_time.                                                               *)

Instants == 0 .. MaxInstant

Ordered6(st) ==
    /\ st.morning_twilight <= st.sunrise
    /\ st.sunrise <= st.midday_period_begins
    /\ st.midday_period_begins <= st.midday_period_ends
    /\ st.midday_period_ends <= st.sunset
    /\ st.sunset <= st.night_twilight

StrictOrdered6(st) ==
    /\ st.morning_twilight < st.sunrise
    /\ st.sunrise < st.midday_period_begins
    /\ st.midday_period_begins < st.midday_period_ends
    /\ st.midday_period_ends < st.sunset
    /\ st.sunset < st.night_twilight

GivenSunTimes ==
    {st \in [sunrise : Instants, sunset : Instants, morning_twilight : Instants,
             night_twilight : Instants, midday_period_begins : Instants,
             midday_period_ends : Instants, user_time : Instants] : Ordered6(st)}

GivenInit ==
    /\ impl = "classes"
    /\ sun_times \in GivenSunTimes
    /\ request = [sunrise          |-> TimeOf(sun_times.sunrise),
                  sunset           |-> TimeOf(sun_times.sunset),
                  morning_twilight |-> TimeOf(sun_times.morning_twilight),
                  night_twilight   |-> TimeOf(sun_times.night_twilight),
                  now              |-> TimeOf(sun_times.user_time)]
    /\ pc = "processed"
    /\ result = NoResult
    /\ Answered
    /\ NoEvaluations

\* The requests of Spec together with the directly given SunTimes objects.
EngineSpec == (Init \/ GivenInit) /\ [][Next]_vars

----------------------------------------------------------------------------
(* what the claims speak of *)

\* forward distance from time-of-day a to time-of-day b on the 24-hour cycle
Arc(a, b) == (b - a) % TicksPerDay

MorningLen == Arc(request.morning_twilight, request.sunrise)

DayLen == Arc(request.sunrise, request.sunset)

NightLen == Arc(request.sunset, request.night_twilight)

ArcLen == MorningLen + DayLen + NightLen

\* the arc morning_twilight -> sunrise -> sunset -> night_twilight is shorter than a day
ArcShort == ArcLen < TicksPerDay

NonDegenerate ==
    ArcShort /\ MorningLen > 0 /\ NightLen > 0 /\ MorningLen + NightLen < DayLen

\* now lies strictly between sunrise + morning twilight and sunset - night twilight
NowInPlateau ==
    LET x == Arc(request.sunrise, request.now)
    IN  MorningLen < x /\ x < DayLen - NightLen

\* now lies on the arc from morning_twilight to night_twilight
NowOnArc == Arc(request.morning_twilight, request.now) <= ArcLen

\* some phase of the request is earlier in the day than its predecessor
CrossesMidnight ==
    \/ request.sunrise < request.morning_twilight
    \/ request.sunset < request.sunrise
    \/ request.night_twilight < request.sunset

Normalized == pc \in {"adjusted", "midday", "processed", "done"}

Processed == pc \in {"processed", "done"}

Hi == IntValue(HI_TEMP)

Lo == IntValue(LO_TEMP)

\* the region the engine's tests select, in their order
InPlateau(st) ==
    st.midday_period_begins < st.user_time /\ st.user_time < st.midday_period_ends

InMorningRamp(st) ==
    st.morning_twilight <= st.user_time /\ st.user_time <= st.midday_period_begins

InNightRamp(st) ==
    st.midday_period_ends <= st.user_time /\ st.user_time <= st.night_twilight

MorningRampSelected(st) == ~InPlateau(st) /\ InMorningRamp(st)

NightRampSelected(st) == ~InPlateau(st) /\ ~InMorningRamp(st) /\ InNightRamp(st)

\* the exact interpolated values of the specification
MorningFormula(st) ==
    Affine(LO_TEMP, HI_TEMP - LO_TEMP,
           Frac(st.user_time - st.morning_twilight,
                2 * (st.sunrise - st.morning_twilight)))

NightFormula(st) ==
    Affine(HI_TEMP, 0 - (HI_TEMP - LO_TEMP),
           Frac(st.user_time - st.midday_period_ends,
                2 * (st.night_twilight - st.sunset)))

----------------------------------------------------------------------------
(* the claims *)

\* C1: end to end, on a non-degenerate daily cycle, a now whose time-of-day
\* lies strictly between one twilight length after sunrise and one twilight
\* length before sunset gets exactly HI, also across midnight.
C1_MiddayIsHigh ==
    pc = "done" /\ NonDegenerate /\ NowInPlateau => result = Hi

\* C2: when the arc is shorter than a day and now's time-of-day lies on it,
\* the normalized instants satisfy morning_twilight <= now <= night_twilight.
C2_NowStaysOnArc ==
    pc = "adjusted" /\ ArcShort /\ NowOnArc
        => /\ sun_times.morning_twilight <= sun_times.user_time
           /\ sun_times.user_time <= sun_times.night_twilight

\* C3: for every four time-of-day values and every now the evaluation
\* completes and returns a temperature; nothing is raised.
C3_EngineNeverRaises ==
    pc = "done" => result.kind = "value"

\* C4: whenever the engine returns a value it lies in [LO, HI], and the
\* proportion of a selected ramp lies in [0, 1].
C4_TemperatureInRange ==
    pc = "done" /\ result.kind = "value"
        => /\ FracLe(Lo, result) /\ FracLe(result, Hi)
           /\ MorningRampSelected(sun_times)
                => /\ 0 <= sun_times.user_time - sun_times.morning_twilight
                   /\ sun_times.user_time - sun_times.morning_twilight
                        <= 2 * (sun_times.sunrise - sun_times.morning_twilight)
           /\ NightRampSelected(sun_times)
                => /\ 0 <= sun_times.user_time - sun_times.midday_period_ends
                   /\ sun_times.user_time - sun_times.midday_period_ends
                        <= 2 * (sun_times.night_twilight - sun_times.sunset)

\* a ramp value strictly inside (LO, HI), on a cycle that crosses midnight
C4_Witness ==
    /\ pc = "done" /\ result.kind = "value" /\ CrossesMidnight
    /\ NightRampSelected(sun_times)
    /\ ~FracLe(result, Lo) /\ ~FracLe(Hi, result)

\* C5 as stated: both twilights shorter than half a day give the six-instant
\* order after normalization and plateau computation.
C5_OrderWhenTwilightsUnderHalfDay ==
    /\ Processed
    /\ 2 * (sun_times.sunrise - sun_times.morning_twilight) < TicksPerDay
    /\ 2 * (sun_times.night_twilight - sun_times.sunset) < TicksPerDay
    => Ordered6(sun_times)

\* the two twilights together are no longer than the sunrise-to-sunset span
TwilightsFitDaylight(st) ==
    (st.sunrise - st.morning_twilight) + (st.night_twilight - st.sunset)
        <= st.sunset - st.sunrise

\* C5 as amended: when the two twilight durations together are no longer
\* than the sunrise-to-sunset span (on the normalized instants), the six
\* instants are in order after normalization and plateau computation.
C5_OrderWhenTwilightsFitDaylight ==
    Processed /\ TwilightsFitDaylight(sun_times) => Ordered6(sun_times)

\* positive twilights that fit into a day crossing midnight, plateau computed
C5_Witness ==
    /\ pc = "processed" /\ CrossesMidnight /\ TwilightsFitDaylight(sun_times)
    /\ sun_times.morning_twilight < sun_times.sunrise
    /\ sun_times.sunset < sun_times.night_twilight
    /\ sun_times.midday_period_begins < sun_times.midday_period_ends

\* C6: after the three checks the phases satisfy
\* morning_twilight <= sunrise <= sunset <= night_twilight, so none of the
\* three checks would fire again.
C6_PhasesOrderedAfterNormalization ==
    Normalized
        => /\ sun_times.morning_twilight <= sun_times.sunrise
           /\ sun_times.sunrise <= sun_times.sunset
           /\ sun_times.sunset <= sun_times.night_twilight

\* all three checks have fired: night_twilight is three days after today
C6_Witness ==
    /\ pc = "adjusted"
    /\ DateOf(sun_times.night_twilight) = Today + 3
    /\ DateOf(sun_times.sunset) = Today + 2
    /\ DateOf(sun_times.sunrise) = Today + 1

\* C7: end to end, when the arc is shorter than a day and now's time-of-day
\* lies outside it, the temperature is exactly LO.
C7_NightIsLow ==
    pc = "done" /\ ArcShort /\ ~NowOnArc => result = Lo

\* C8: given phases in the strict six-instant order, every user_time strictly
\* inside the midday period gets exactly HI.
C8_PlateauIsHigh ==
    pc = "done" /\ StrictOrdered6(sun_times) /\ InPlateau(sun_times)
        => result = Hi

\* strictly ordered phases and a user_time inside the midday period,
\* evaluated by the class-based engine
C8_Witness ==
    /\ pc = "done" /\ impl = "classes"
    /\ StrictOrdered6(sun_times) /\ InPlateau(sun_times)
    /\ result = Hi

\* C9: given phases in the total order, a now with
\* morning_twilight <= now <= midday_begin gets
\* LO + (HI - LO) * (now - morning_twilight) / (2 * (sunrise - morning_twilight)).
C9_MorningRampFormula ==
    pc = "done" /\ Ordered6(sun_times) /\ InMorningRamp(sun_times)
        => /\ result.kind = "value"
           /\ FracEq(result, MorningFormula(sun_times))

\* C10: given phases in the total order, a now with
\* midday_end <= now <= night_twilight gets
\* HI - (HI - LO) * (now - midday_end) / (2 * (night_twilight - sunset)).
C10_NightRampFormula ==
    pc = "done" /\ Ordered6(sun_times) /\ InNightRamp(sun_times)
        => /\ result.kind = "value"
           /\ FracEq(result, NightFormula(sun_times))

\* the first test of midday_period_adjustment left midday_period_begins alone
MorningMirrored(st) ==
    st.midday_period_begins - st.sunrise = st.sunrise - st.morning_twilight

\* the second test of midday_period_adjustment left midday_period_ends alone
NightMirrored(st) ==
    st.sunset - st.midday_period_ends = st.night_twilight - st.sunset

\* C11 as stated: after the plateau computation and its fix-up, for every
\* input, midday_begin - sunrise = sunrise - morning_twilight and
\* sunset - midday_end = night_twilight - sunset.
C11_MirrorForEveryInput ==
    Processed => MorningMirrored(sun_times) /\ NightMirrored(sun_times)

\* C11 as amended: midday_begin - sunrise = sunrise - morning_twilight for
\* every input; sunset - midday_end = night_twilight - sunset when the two
\* twilights together are no longer than the sunrise-to-sunset span, and
\* otherwise the fix-up has put midday_end one day later than the mirror.
C11_MirrorUnlessFixUpFires ==
    Processed
        => /\ MorningMirrored(sun_times)
           /\ IF TwilightsFitDaylight(sun_times)
              THEN NightMirrored(sun_times)
              ELSE sun_times.sunset - sun_times.midday_period_ends
                       = (sun_times.night_twilight - sun_times.sunset) - OneDay

\* a day crossing midnight with positive twilights of different lengths,
\* plateau computed and both sides mirrored
C11_Witness ==
    /\ pc = "processed" /\ CrossesMidnight
    /\ TwilightsFitDaylight(sun_times)
    /\ sun_times.morning_twilight < sun_times.sunrise
    /\ sun_times.night_twilight - sun_times.sunset
           > sun_times.sunrise - sun_times.morning_twilight
    /\ MorningMirrored(sun_times) /\ NightMirrored(sun_times)

\* the temperature the implementation under evaluation returns for the phases
\* st when the clock reads t
TemperatureAt(st, t) ==
    IF impl = "utils"
    THEN utils_calculate_temp([st EXCEPT !.user_time = t])
    ELSE get_interval([st EXCEPT !.user_time = t])

\* r is a returned temperature equal to the integer n
IsTemp(r, n) == r.kind = "value" /\ r.num = n * r.den

\* C12: for phases in the strict six-instant order the temperature is LO at
\* morning_twilight, HI at midday_begin, HI at midday_end and LO at
\* night_twilight, so the curve has no jump where two regions meet.
C12_BoundaryValues ==
    Processed /\ StrictOrdered6(sun_times)
        => /\ IsTemp(TemperatureAt(sun_times, sun_times.morning_twilight), LO_TEMP)
           /\ IsTemp(TemperatureAt(sun_times, sun_times.midday_period_begins), HI_TEMP)
           /\ IsTemp(TemperatureAt(sun_times, sun_times.midday_period_ends), HI_TEMP)
           /\ IsTemp(TemperatureAt(sun_times, sun_times.night_twilight), LO_TEMP)

\* an evaluation exactly at midday_end of strictly ordered phases of a day
\* crossing midnight has returned HI
C12_Witness ==
    /\ pc = "done" /\ CrossesMidnight /\ StrictOrdered6(sun_times)
    /\ sun_times.user_time = sun_times.midday_period_ends
    /\ result.kind = "value" /\ IsTemp(result, HI_TEMP)

\* t1 <= t2, both in lo .. hi
RampPairs(lo, hi) == {p \in (lo .. hi) \X (lo .. hi) : p[1] <= p[2]}

\* both evaluations return a temperature and a is not above b
TempLe(a, b) == a.kind = "value" /\ b.kind = "value" /\ FracLe(a, b)

\* C13: for fixed phases in the total order, t1 <= t2 in the morning ramp
\* implies temperature(t1) <= temperature(t2), and t1 <= t2 in the evening
\* ramp implies temperature(t1) >= temperature(t2).
C13_RampsMonotone ==
    Processed /\ Ordered6(sun_times)
        => /\ \A p \in RampPairs(sun_times.morning_twilight,
                                 sun_times.midday_period_begins) :
                  TempLe(TemperatureAt(sun_times, p[1]),
                         TemperatureAt(sun_times, p[2]))
           /\ \A p \in RampPairs(sun_times.midday_period_ends,
                                 sun_times.night_twilight) :
                  TempLe(TemperatureAt(sun_times, p[2]),
                         TemperatureAt(sun_times, p[1]))

\* the four phase values of st
PhaseNames == {"morning_twilight", "sunrise", "sunset", "night_twilight"}

\* the phases normalization has put on a later date than now's original one
Advanced == {n \in PhaseNames : DateOf(sun_times[n]) > Today}

\* C14 as stated: after normalization each of the four phase values lies on
\* now's original calendar date or exactly one day later, and at most two of
\* the four have been advanced.
C14_AtMostTwoAdvancedByOneDay ==
    Normalized
        => /\ \A n \in PhaseNames : DateOf(sun_times[n]) \in {Today, Today + 1}
           /\ Cardinality(Advanced) <= 2

\* C14 as amended: after normalization every phase value keeps its
\* time-of-day; morning_twilight is on now's original date, sunrise on that
\* date or one day later, sunset on sunrise's date or one day later and
\* night_twilight on sunset's date or one day later; when the arc is shorter
\* than a day every value is on now's original date or exactly one day later.
C14_EachCheckAdvancesOneDay ==
    Normalized
        => /\ \A n \in PhaseNames : TimeOf(sun_times[n]) = request[n]
           /\ DateOf(sun_times.morning_twilight) = Today
           /\ DateOf(sun_times.sunrise) - Today \in {0, 1}
           /\ DateOf(sun_times.sunset) - DateOf(sun_times.sunrise) \in {0, 1}
           /\ DateOf(sun_times.night_twilight) - DateOf(sun_times.sunset) \in {0, 1}
           /\ Cardinality(Advanced) <= 3
           /\ (ArcShort =>
                 \A n \in PhaseNames : DateOf(sun_times[n]) \in {Today, Today + 1})

\* the first check alone has fired on an arc shorter than a day: three of
\* the four values are one day later, morning_twilight is not
C14_Witness ==
    /\ pc = "adjusted" /\ ArcShort
    /\ Advanced = {"sunrise", "sunset", "night_twilight"}
    /\ DateOf(sun_times.night_twilight) = Today + 1

\* C15: normalization advances now by at most one day in total, even when
\* more than one of the three checks fires.
C15_NowAdvancedAtMostOnce ==
    Normalized
        => /\ TimeOf(sun_times.user_time) = request.now
           /\ DateOf(sun_times.user_time) \in {Today, Today + 1}

\* the number of checks that have fired: each one advances night_twilight by
\* exactly one day
ChecksFired == DateOf(sun_times.night_twilight) - Today

\* C15 as amended: normalization keeps now's time-of-day and advances now by
\* at most one day for each check that fires, so by at most three days; when
\* the arc is shorter than a day now is advanced by at most one day.
C15_NowAdvancedAtMostOncePerCheck ==
    Normalized
        => /\ TimeOf(sun_times.user_time) = request.now
           /\ DateOf(sun_times.user_time) - Today \in 0 .. ChecksFired
           /\ ChecksFired \in 0 .. 3
           /\ (ArcShort => DateOf(sun_times.user_time) \in {Today, Today + 1})

\* two checks have fired and each has advanced now
C15_Witness ==
    /\ pc = "adjusted"
    /\ ChecksFired = 2
    /\ DateOf(sun_times.user_time) = Today + 2

\* r is a returned temperature that is a whole number
IsInteger(r) == r.kind = "value" /\ r.num % r.den = 0

\* the returned temperature r differs from the exact value e by at most 1/2
WithinHalf(r, e) ==
    LET d == r.num * e.den - e.num * r.den
    IN  2 * (IF d < 0 THEN 0 - d ELSE d) <= r.den * e.den

\* C16: for strictly ordered phases and a now in a ramp region, the returned
\* temperature is an integer that differs from the exact interpolated value
\* by at most one half.
C16_RampResultIsRoundedInteger ==
    pc = "done" /\ StrictOrdered6(sun_times)
        => /\ (MorningRampSelected(sun_times)
                  => IsInteger(result)
                     /\ WithinHalf(result, MorningFormula(sun_times)))
           /\ (NightRampSelected(sun_times)
                  => IsInteger(result)
                     /\ WithinHalf(result, NightFormula(sun_times)))

\* both coordinates are numbers inside their range
CoordinatesValid == args.lat = "inside" /\ args.lng = "inside"

\* C17: GET /night-time-temperature answers 400 with the key 'error' whenever
\* the calculation fails and 200 with the key 'temperature' otherwise; no
\* failure of the calculation leaves the route as an unhandled exception.
C17_RouteAnswers400Or200 ==
    pc = "responded" /\ impl = "utils"
        => response = IF result.kind = "value" THEN Ok200 ELSE Error400

\* C18: coordinates are validated before the provider is contacted: when lat
\* or lng is no number or out of range, the evaluation ends in an error and
\* no provider request is issued.
C18_ValidatedBeforeProvider ==
    ~CoordinatesValid
        => /\ provider_requests = 0
           /\ (pc = "responded" => response # Ok200)

\* the SunTimes object of a request that is evaluated alone, at each stage
AloneAt(stage, req) ==
    LET combined == combine_times_with_date(SunTimes(req), Today)
    IN  CASE stage = "combined"        -> combined
          [] stage = "sunrise_checked" -> adjust_dates_1(combined)
          [] stage = "sunset_checked"  -> adjust_dates_2(adjust_dates_1(combined))
          [] stage = "adjusted"        -> adjust_dates(combined)
          [] stage = "midday"          -> calculate_midday_period(adjust_dates(combined))
          [] OTHER                     -> process_midday_period(adjust_dates(combined))

\* the objects an evaluation has made so far
ObjectsOf(k) == {evals[k].builder, evals[k].ref} \ {0}

\* C19: under every interleaving of two concurrent evaluations, each one's
\* SunTimes instants and temperature are those of the same request evaluated
\* alone, and no SunTimes object is shared between the two.
C19_EvaluationsIndependent ==
    /\ \A k \in DOMAIN evals :
          /\ evals[k].ref # 0
                => objects[evals[k].ref] = AloneAt(evals[k].pc, evals[k].request)
          /\ evals[k].pc = "done"
                => evals[k].result
                       = get_interval(AloneAt("done", evals[k].request))
    /\ \A j, k \in DOMAIN evals : j # k => ObjectsOf(j) \cap ObjectsOf(k) = {}

\* both evaluations are done, on different requests with different results,
\* and the second one made its objects between the two objects of the first
C19_Witness ==
    /\ DOMAIN evals = Evals
    /\ evals[1].pc = "done" /\ evals[2].pc = "done"
    /\ evals[1].request # evals[2].request
    /\ evals[1].result # evals[2].result
    /\ evals[1].builder < evals[2].builder
    /\ evals[2].ref < evals[1].ref

\* C20: when the naive same-day sunrise is before morning_twilight, the first
\* check advances sunrise, sunset and night_twilight by one day each, leaves
\* morning_twilight where it is, and advances now by one day exactly when
\* now's time-of-day is before sunrise's time-of-day.
C20_FirstCheck ==
    pc = "sunrise_checked" /\ request.sunrise < request.morning_twilight
        => /\ sun_times.sunrise = Combine(Today + 1, request.sunrise)
           /\ sun_times.sunset = Combine(Today + 1, request.sunset)
           /\ sun_times.night_twilight = Combine(Today + 1, request.night_twilight)
           /\ sun_times.morning_twilight = Combine(Today, request.morning_twilight)
           /\ sun_times.user_time
                  = IF request.now < request.sunrise
                    THEN Combine(Today + 1, request.now)
                    ELSE Combine(Today, request.now)

\* the first check has fired on a day that starts just before midnight, with
\* a now after midnight and before sunrise: now has moved with the sunrise
C20_Witness ==
    /\ pc = "sunrise_checked"
    /\ request.morning_twilight = TicksPerDay - 1
    /\ request.now < request.sunrise
    /\ request.sunrise < request.sunset
    /\ sun_times.user_time = Combine(Today + 1, request.now)
    /\ sun_times.sunrise = Combine(Today + 1, request.sunrise)
    /\ sun_times.morning_twilight = Combine(Today, request.morning_twilight)

\* 1 when the first check fires on the request, else 0
FirstFires == IF request.sunrise < request.morning_twilight THEN 1 ELSE 0

\* 1 when the second check fires on the request, else 0: sunrise and sunset
\* are on the same date after the first check
SecondFires == IF request.sunset < request.sunrise THEN 1 ELSE 0

\* the days the first check has added to now
NowDaysAfterFirst ==
    IF FirstFires = 1 /\ request.now < request.sunrise THEN 1 ELSE 0

\* the days the first two checks have added to now
NowDaysAfterSecond ==
    NowDaysAfterFirst
        + (IF SecondFires = 1 /\ request.now < request.night_twilight THEN 1 ELSE 0)

\* C21: when, after the first check, sunset is earlier than sunrise, the
\* second check advances sunset and night_twilight by one day each, leaves
\* sunrise and morning_twilight as they are, and advances now by one day
\* exactly when now's time-of-day is earlier than night_twilight's.
C21_SecondCheck ==
    pc = "sunset_checked" /\ request.sunset < request.sunrise
        => /\ sun_times.sunset = Combine(Today + FirstFires + 1, request.sunset)
           /\ sun_times.night_twilight
                  = Combine(Today + FirstFires + 1, request.night_twilight)
           /\ sun_times.sunrise = Combine(Today + FirstFires, request.sunrise)
           /\ sun_times.morning_twilight = Combine(Today, request.morning_twilight)
           /\ sun_times.user_time
                  = IF request.now < request.night_twilight
                    THEN Combine(Today + NowDaysAfterFirst + 1, request.now)
                    ELSE Combine(Today + NowDaysAfterFirst, request.now)

\* the second check alone has fired on a day whose sunset falls after
\* midnight, with a now between midnight and night twilight: now has moved
C21_Witness ==
    /\ pc = "sunset_checked"
    /\ FirstFires = 0 /\ request.sunset < request.sunrise
    /\ request.sunset < request.night_twilight
    /\ request.now < request.night_twilight /\ request.now >= request.sunset
    /\ sun_times.user_time = Combine(Today + 1, request.now)
    /\ sun_times.sunset = Combine(Today + 1, request.sunset)
    /\ sun_times.sunrise = Combine(Today, request.sunrise)

\* C22: when, after the first two checks, night_twilight is earlier than
\* sunset, the third check advances night_twilight alone by one day and
\* advances now by one day exactly when now's time-of-day is earlier than
\* night_twilight's.
C22_ThirdCheck ==
    pc = "adjusted" /\ request.night_twilight < request.sunset
        => /\ sun_times.night_twilight
                  = Combine(Today + FirstFires + SecondFires + 1,
                            request.night_twilight)
           /\ sun_times.sunset
                  = Combine(Today + FirstFires + SecondFires, request.sunset)
           /\ sun_times.sunrise = Combine(Today + FirstFires, request.sunrise)
           /\ sun_times.morning_twilight = Combine(Today, request.morning_twilight)
           /\ sun_times.user_time
                  = IF request.now < request.night_twilight
                    THEN Combine(Today + NowDaysAfterSecond + 1, request.now)
                    ELSE Combine(Today + NowDaysAfterSecond, request.now)

\* the third check alone has fired on a day whose night twilight ends after
\* midnight, with a now after midnight and before that end: now has moved
C22_Witness ==
    /\ pc = "adjusted"
    /\ FirstFires = 0 /\ SecondFires = 0
    /\ request.night_twilight < request.sunset
    /\ request.now < request.night_twilight
    /\ sun_times.user_time = Combine(Today + 1, request.now)
    /\ sun_times.night_twilight = Combine(Today + 1, request.night_twilight)
    /\ sun_times.sunset = Combine(Today, request.sunset)

\* the four time-of-day values of the request are in order on one day
RequestOrdered ==
    /\ request.morning_twilight <= request.sunrise
    /\ request.sunrise <= request.sunset
    /\ request.sunset <= request.night_twilight

\* normalization has changed nothing: the four phases and now are on now's date
NothingAdvanced ==
    /\ \A n \in PhaseNames : sun_times[n] = Combine(Today, request[n])
    /\ sun_times.user_time = Combine(Today, request.now)

\* C23 as stated: when the four time-of-day values are already ordered on one
\* day, normalization changes nothing, and the plateau is
\* midday_begin = 2*sunrise - morning_twilight and
\* midday_end = 2*sunset - night_twilight, both on now's date.
C23_OrderedDayUntouched ==
    Processed /\ RequestOrdered
        => /\ NothingAdvanced
           /\ sun_times.midday_period_begins
                  = 2 * sun_times.sunrise - sun_times.morning_twilight
           /\ sun_times.midday_period_ends
                  = 2 * sun_times.sunset - sun_times.night_twilight
           /\ DateOf(sun_times.midday_period_begins) = Today
           /\ DateOf(sun_times.midday_period_ends) = Today

\* C23 as amended: when the four time-of-day values are already ordered on
\* one day, normalization changes nothing and
\* midday_begin = 2*sunrise - morning_twilight; when the twilights together
\* are no longer than the sunrise-to-sunset span,
\* midday_end = 2*sunset - night_twilight and both are on now's date,
\* otherwise midday_end is 2*sunset - night_twilight plus one day.
C23_OrderedDayUntouchedPlateauFixed ==
    (Normalized /\ RequestOrdered => NothingAdvanced)
    /\ (Processed /\ RequestOrdered
          => /\ sun_times.midday_period_begins
                    = 2 * sun_times.sunrise - sun_times.morning_twilight
             /\ IF TwilightsFitDaylight(sun_times)
                THEN /\ sun_times.midday_period_ends
                            = 2 * sun_times.sunset - sun_times.night_twilight
                     /\ DateOf(sun_times.midday_period_begins) = Today
                     /\ DateOf(sun_times.midday_period_ends) = Today
                ELSE sun_times.midday_period_ends
                         = 2 * sun_times.sunset - sun_times.night_twilight + OneDay)

\* an ordered day with positive twilights that fit, a now before morning
\* twilight, plateau computed: nothing has moved
C23_Witness ==
    /\ pc = "processed" /\ RequestOrdered
    /\ request.morning_twilight < request.sunrise
    /\ request.sunset < request.night_twilight
    /\ request.now < request.morning_twilight
    /\ TwilightsFitDaylight(sun_times)
    /\ NothingAdvanced
    /\ sun_times.midday_period_begins < sun_times.midday_period_ends

\* the regions whose predicate holds for st.user_time; the night is the
\* region of the instants in none of the other three
RegionsHolding(st) ==
    LET three == (IF InPlateau(st) THEN {"midday_period"} ELSE {})
                 \cup (IF InMorningRamp(st) THEN {"morning_twilight"} ELSE {})
                 \cup (IF InNightRamp(st) THEN {"night_twilight"} ELSE {})
    IN  IF three = {} THEN {"night_period"} ELSE three

C25_OutsideIsLow ==
    pc = "done" /\ Ordered6(sun_times)
    /\ (sun_times.user_time < sun_times.morning_twilight
        \/ sun_times.user_time > sun_times.night_twilight)
        => result = Lo

\* C26 as stated: after the plateau fix-up midday_begin <= midday_end for
\* every four time-of-day values.
C26_PlateauOrderedForEveryInput ==
    Processed => sun_times.midday_period_begins <= sun_times.midday_period_ends

\* by how much the two twilights together are longer than the daylight
TwilightExcess(st) ==
    (st.sunrise - st.morning_twilight) + (st.night_twilight - st.sunset)
        - (st.sunset - st.sunrise)

\* C26 as amended: after the plateau fix-up midday_begin <= midday_end holds
\* exactly for the inputs whose twilights together are longer than the
\* daylight by at most one day, among them every input whose arc is shorter
\* than a day.
C26_PlateauOrderedUnlessExcessOverOneDay ==
    Processed
        => /\ (sun_times.midday_period_begins <= sun_times.midday_period_ends
                  <=> TwilightExcess(sun_times) <= OneDay)
           /\ (ArcShort
                  => sun_times.midday_period_begins <= sun_times.midday_period_ends)

\* the fix-up has added its one day to midday_end and that was enough
C26_Witness ==
    /\ pc = "processed" /\ ArcShort
    /\ TwilightExcess(sun_times) > 0
    /\ sun_times.midday_period_ends > sun_times.sunset
    /\ sun_times.midday_period_begins <= sun_times.midday_period_ends

\* the three checks of the implementation under evaluation, applied to st
Normalize(st) ==
    IF impl = "utils"
    THEN utils_increment_3(utils_increment_2(utils_increment_1(st)))
    ELSE adjust_dates(st)

\* C27: normalization is idempotent: the three checks applied to their own
\* output leave the four phases and now unchanged, for every input.
C27_NormalizationIdempotent ==
    Normalized => Normalize(sun_times) = sun_times

\* all three checks have fired and moved now, and a second pass moves nothing
C27_Witness ==
    /\ pc = "adjusted"
    /\ ChecksFired = 3
    /\ DateOf(sun_times.user_time) > Today
    /\ Normalize(sun_times) = sun_times

\* the instants given with the request: the four phases and now
GivenNames == PhaseNames \cup {"user_time"}

\* the time-of-day the request gave for the instant n
GivenTimeOf(n) == IF n = "user_time" THEN request.now ELSE request[n]

\* every instant of a holds the value it has in b, or that value moved
\* forward by whole days; morning_twilight holds the same value
MovedForwardByDays(a, b) ==
    /\ b.morning_twilight = a.morning_twilight
    /\ \A n \in GivenNames :
          /\ b[n] >= a[n]
          /\ (b[n] - a[n]) % OneDay = 0

\* C28: normalization and plateau computation never change morning_twilight,
\* never move an instant to an earlier value, and change sunrise, sunset,
\* night_twilight and now only by whole days, so each of these instants
\* keeps the time-of-day it was given.
C28_OnlyForwardByWholeDays ==
    [][/\ pc # "request" => MovedForwardByDays(sun_times, sun_times')
       /\ pc = "midday"
             => /\ sun_times'.midday_period_begins >= sun_times.midday_period_begins
                /\ sun_times'.midday_period_ends >= sun_times.midday_period_ends
                /\ (sun_times'.midday_period_begins
                        - sun_times.midday_period_begins) % OneDay = 0
                /\ (sun_times'.midday_period_ends
                        - sun_times.midday_period_ends) % OneDay = 0
       /\ sun_times'.morning_twilight = Combine(Today, request.morning_twilight)
       /\ \A n \in GivenNames : TimeOf(sun_times'[n]) = GivenTimeOf(n)]_vars

\* all three checks and the fix-up have moved something: every moved instant
\* still has its time-of-day and morning_twilight its date
C28_Witness ==
    /\ pc = "processed"
    /\ ChecksFired = 3
    /\ DateOf(sun_times.user_time) > Today
    /\ sun_times.midday_period_ends > sun_times.sunset
    /\ sun_times.morning_twilight = Combine(Today, request.morning_twilight)
    /\ \A n \in GivenNames : TimeOf(sun_times[n]) = GivenTimeOf(n)

\* utils.date_adjustment on the request req: the seven instants it returns
utils_date_adjustment(req) ==
    utils_midday_increment(utils_midday(utils_increment_3(utils_increment_2(
        utils_increment_1(utils_combine(SunTimes(req)))))))

\* ProcessAPICall.process_api_call on the SunTimes of the request req
process_api_call(req) ==
    process_midday_period(adjust_dates(
        combine_times_with_date(SunTimes(req), DateOf(SunTimes(req).user_time))))

\* the object and the result the implementation i has for the request req
Computed(i, req) ==
    IF i = "utils"
    THEN [sun_times |-> utils_date_adjustment(req),
          result    |-> utils_calculate_temp(utils_date_adjustment(req))]
    ELSE [sun_times |-> process_api_call(req),
          result    |-> get_interval(process_api_call(req))]

\* the float f and the integer k differ by the rounding only
RoundsTo(f, k) == k = IntValue(Round([num |-> f.num, den |-> f.den]))

\* two results agree: both are failures, or both are temperatures of which
\* one is the other rounded (or equal)
ResultsAgree(ru, rc) ==
    /\ (ru.kind = "value") <=> (rc.kind = "value")
    /\ ru.kind = "value" /\ rc.kind = "value" => RoundsTo(ru, rc)

\* C29: the monolithic and the class-based implementation are equivalent on
\* every request: either both fail or both return, with the same seven
\* instants and temperatures that differ only by the final rounding.
C29_ImplementationsEquivalent ==
    pc = "done"
       => /\ sun_times = Computed(impl, request).sun_times
          /\ result = Computed(impl, request).result
          /\ Computed("utils", request).sun_times
                = Computed("classes", request).sun_times
          /\ ResultsAgree(Computed("utils", request).result,
                          Computed("classes", request).result)

\* the mirrors of the two twilights, as calculate_midday_period sets them
MirroredBegin == sun_times.sunrise + (sun_times.sunrise - sun_times.morning_twilight)

MirroredEnd == sun_times.sunset - (sun_times.night_twilight - sun_times.sunset)

\* C30: on every normalized input the mirrored midday_begin is at or after
\* sunrise and morning_twilight, so the first plateau fix-up never fires;
\* only midday_end can be shifted by the fix-up.
C30_OnlyMiddayEndShifted ==
    /\ pc = "midday"
          => /\ sun_times.midday_period_begins = MirroredBegin
             /\ sun_times.midday_period_begins >= sun_times.sunrise
             /\ sun_times.midday_period_begins >= sun_times.morning_twilight
    /\ Processed
          => /\ sun_times.midday_period_begins = MirroredBegin
             /\ sun_times.midday_period_ends \in {MirroredEnd, MirroredEnd + OneDay}

\* the fix-up has run and shifted midday_end, and midday_begin is the mirror
\* of a morning twilight of length zero, the closest it gets to sunrise
C30_Witness ==
    /\ pc = "processed"
    /\ sun_times.midday_period_ends = MirroredEnd + OneDay
    /\ sun_times.midday_period_begins = sun_times.sunrise
    /\ ChecksFired > 0

====
